---- MODULE Spec2Model ----
(***************************************************************************)
(* Wallet / transaction ledger, payment callbacks and registration of the  *)
(* marketplace backend, as a state machine over the MongoDB collections.   *)
(* Every request is served by a handler slot; a handler takes one step per *)
(* awaited database operation, so that requests interleave exactly where   *)
(* the Node.js event loop lets them interleave.                            *)
(***************************************************************************)
EXTENDS Integers, Sequences, FiniteSets, TLC

VARIABLES
    users,          \* User collection: sequence of documents, _id = index
    txs,            \* Transaction collection: sequence of documents, _id = index
    purchases,      \* Purchase collection: set of documents
    purchaseCount,  \* Project.purchaseCount per project
    pc,             \* position of each handler slot
    loc,            \* locals of each handler slot (req, res and consts)
    delivered,      \* history: callbacks handled one after the other so far
    now,            \* Date.now(), in ticks of the clock
    projectDocs,    \* Project collection: the document of each project id
    memoryCache,    \* MemoryCache instance: its cache and timers maps
    mockRedis,      \* MockRedis instance: its data map and pending timeouts
    redis,          \* config/redis.js: hasRealRedis and the Redis server's keys
    attempts,       \* bruteForceProtection: the attempts map of its closure
    sessions,       \* AIChatSession collection: set of documents
    hist            \* history: what limiters, middleware and caches answered

\* what the wallet and register handlers never write
stores == <<memoryCache, mockRedis, redis, attempts, sessions, hist>>
other == <<now, projectDocs, stores>>

vars == <<users, txs, purchases, purchaseCount, pc, loc, delivered, other>>

----------------------------------------------------------------------------
(* Bounds of the model *)

NumHandlers == 2    \* requests in flight at the same time
MaxTx == 2          \* documents in the Transaction collection
MaxUsers == 4       \* documents in the User collection
MaxTime == 2        \* ticks of the clock

Handlers == 1..NumHandlers
TxIds == 1..MaxTx
Projects == {"p1", "p2"}

----------------------------------------------------------------------------
(* Data *)

\* bcrypt.hash(password, salt) of the pre-save hook: bcrypt.compare accepts
\* exactly the password that was hashed
Hash(password) == <<"bcrypt", password>>

\* scripts/seed.js: the author and the regular user; otpExpires 0 stands for
\* null
SeedUsers ==
    << [email |-> "author@nextgenai.com", verified |-> TRUE, balance |-> 500,
        otpCode |-> "null", otpExpires |-> 0, verificationToken |-> "null", lastLogin |-> 0,
        password |-> Hash("author123"), role |-> "author"],
       [email |-> "user@nextgenai.com", verified |-> TRUE, balance |-> 100,
        otpCode |-> "null", otpExpires |-> 0, verificationToken |-> "null", lastLogin |-> 0,
        password |-> Hash("user123"), role |-> "user"] >>

\* req.body.amount of POST /topup and of POST /payment (no route validation)
TopupAmounts == {5, 100}
PayAmounts == {-100, 100}
PaymentMethods == {"vnpay", "bitcoin"}

\* Transaction.paymentMethod enum
PaymentMethodEnum ==
    {"wallet_balance", "vnpay", "momo", "paypal", "stripe", "bank_transfer"}

\* :provider of /callback/:provider; "undefined" is req.params.provider of the
\* fixed routes /vnpay/callback, /momo/callback and /paypal/callback
ProviderParams == {"stripe", "paypal", "vnpay", "momo", "MoMo", "bitcoin", "undefined"}

\* an id without document in the Project collection
NoProject == [exists |-> FALSE, author |-> 0, title |-> ""]

\* scripts/seed.js: the sample projects belong to the author
SeedProjects ==
    [p \in Projects |->
        IF p = "p1" THEN [exists |-> TRUE, author |-> 1, title |-> "t1"]
        ELSE NoProject]

NoLoc ==
    [op |-> "none", user |-> 0, ubal |-> 0, amount |-> 0, project |-> "",
     tx |-> 0, email |-> "", provider |-> "", authed |-> FALSE,
     success |-> FALSE, isValid |-> FALSE, isSuccess |-> FALSE,
     pend |-> FALSE, retry |-> FALSE, had |-> FALSE, resp |-> "",
     password |-> "", otp |-> "", token |-> [kind |-> "none", id |-> 0],
     nextCalls |-> 0, sent |-> 0, mailOk |-> FALSE, body |-> [author |-> 0, title |-> ""],
     limiter |-> "", identifier |-> "", current |-> 0,
     route |-> "", verdict |-> "", twin |-> "", sessionId |-> 0]

----------------------------------------------------------------------------
(* authMiddleware.protect *)

NoToken == [kind |-> "none", id |-> 0]
BadToken == [kind |-> "bad", id |-> 0]
Jwt(i) == [kind |-> "jwt", id |-> i]
Tokens == {NoToken, BadToken} \cup {Jwt(i) : i \in 1..MaxUsers}

\* "Authorization: Basic ...": the header does not start with "Bearer"
BasicHeader == [kind |-> "none", id |-> 1]
\* "Authorization: Bearer": split(" ")[1] is undefined and jwt.verify throws
EmptyBearer == [kind |-> "bad", id |-> 1]
Headers == Tokens \cup {BasicHeader, EmptyBearer}

\* mutant: the verified flag of the user is not looked at
ProtectUnverified(token) ==
    IF token.kind = "none" THEN "401 Not authorized, no token"
    ELSE IF token.kind = "bad" THEN "401 Not authorized, token failed"
    ELSE IF token.id \notin DOMAIN users THEN "401 Not authorized, user not found"
    ELSE "next"

\* the response protect sends, or "next" when it calls next()
Protect(token) ==
    IF token.kind = "none" THEN "401 Not authorized, no token"
    ELSE IF token.kind = "bad" THEN "401 Not authorized, token failed"
    ELSE IF token.id \notin DOMAIN users THEN "401 Not authorized, user not found"
    ELSE IF ~users[token.id].verified THEN "401 Please verify your email address first"
    ELSE "next"

----------------------------------------------------------------------------
(* helpers *)

Done(h, l) ==
    /\ pc' = [pc EXCEPT ![h] = "done"]
    /\ loc' = [loc EXCEPT ![h] = l]

Goto(h, label, l) ==
    /\ pc' = [pc EXCEPT ![h] = label]
    /\ loc' = [loc EXCEPT ![h] = l]

IncBalance(u, d) == [users EXCEPT ![u].balance = @ + d]

\* handlers that have still to insert their Transaction document
Creators == {h \in Handlers : pc[h] \in {"topup", "pay_check", "pay_create"}}
RoomForTx == Len(txs) + Cardinality(Creators) < MaxTx

----------------------------------------------------------------------------
(* paymentService: verification of a provider callback *)

Refs == 0..MaxTx            \* a transaction id in a query parameter; 0: absent
Codes == {"00", "0", "24"}  \* vnp_ResponseCode / resultCode

VnpayHashSecret == "VNPAY_HASH_SECRET"
MomoSecretKey == "MOMO_SECRET_KEY"
SigningKeys == {VnpayHashSecret, MomoSecretKey, "attacker-key"}

\* crypto.createHmac(alg, key).update(msg).digest("hex"): equal digests iff
\* equal key and equal message
Hmac(key, msg) == <<key, msg>>

\* the query string VNPay signs: every parameter but vnp_SecureHash, sorted
VnpayMessage(p) == <<"vnpay", p.orderId, p.paymentIntentId, p.vnp_ResponseCode, p.vnp_TxnRef>>
\* rawSignature of MoMo: orderId and resultCode among fixed fields
MomoMessage(p) == <<"momo", p.orderId, p.vnp_ResponseCode>>

\* req.query without the signature; the one result-code parameter stands for
\* vnp_ResponseCode (VNPay) and resultCode (MoMo)
QueryParams ==
    [vnp_TxnRef : Refs, orderId : Refs, paymentIntentId : Refs,
     vnp_ResponseCode : Codes]

\* signatures a sender can attach: made with any key over this query or over
\* the same query with another result code
SignaturesFor(p) ==
    UNION { { Hmac(k, VnpayMessage([p EXCEPT !.vnp_ResponseCode = c])),
              Hmac(k, MomoMessage([p EXCEPT !.vnp_ResponseCode = c])) } :
            k \in SigningKeys, c \in Codes }

ToLowerCase(s) == IF s = "MoMo" THEN "momo" ELSE s

\* mutant: the signature check is dropped from the verdict
VerifyOkUnsigned(isValid, isSuccess) == isSuccess

\* success: isValid && isSuccess
VerifyOk(isValid, isSuccess) == isValid /\ isSuccess

VnpayVerifyPaymentCallback(p, sig) ==
    LET isValid == Hmac(VnpayHashSecret, VnpayMessage(p)) = sig
        isSuccess == p.vnp_ResponseCode = "00"
    IN [success |-> VerifyOk(isValid, isSuccess), isValid |-> isValid,
        isSuccess |-> isSuccess, hasData |-> TRUE]

MomoVerifyPaymentCallback(p, sig) ==
    LET isValid == sig = Hmac(MomoSecretKey, MomoMessage(p))
        isSuccess == p.vnp_ResponseCode = "0"
    IN [success |-> VerifyOk(isValid, isSuccess), isValid |-> isValid,
        isSuccess |-> isSuccess, hasData |-> TRUE]

\* stripeService.confirmPayment / paypalService.executePayment: the provider's
\* API answers (ext); the result object has no data property
ApiVerify(ext) ==
    [success |-> ext, isValid |-> FALSE, isSuccess |-> FALSE, hasData |-> FALSE]

Unsupported ==
    [success |-> FALSE, isValid |-> FALSE, isSuccess |-> FALSE, hasData |-> FALSE]

\* paymentService.verifyPayment, provider already lower-cased
VerifyPayment(provider, p, sig, ext) ==
    CASE provider = "stripe" -> ApiVerify(ext)
      [] provider = "paypal" -> ApiVerify(ext)
      [] provider = "vnpay" -> VnpayVerifyPaymentCallback(p, sig)
      [] provider = "momo" -> MomoVerifyPaymentCallback(p, sig)
      [] OTHER -> Unsupported

\* data.vnp_TxnRef || data.orderId || data.paymentIntentId
TransactionId(p) ==
    IF p.vnp_TxnRef # 0 THEN p.vnp_TxnRef
    ELSE IF p.orderId # 0 THEN p.orderId
    ELSE p.paymentIntentId

\* What handlePaymentCallback computes before its first database operation:
\* threw: a TypeError left the handler (provider undefined, or data undefined);
\* tx: the transaction id the handler looks up, which is the transaction the
\* query names.
CallbackOutcome(param, p, sig, ext) ==
    IF param = "undefined"
    THEN [provider |-> "undefined", threw |-> TRUE, success |-> FALSE,
          isValid |-> FALSE, isSuccess |-> FALSE, tx |-> TransactionId(p)]
    ELSE LET v == VerifyPayment(ToLowerCase(param), p, sig, ext) IN
         [provider |-> ToLowerCase(param),
          threw |-> v.success /\ ~v.hasData,
          success |-> v.success, isValid |-> v.isValid,
          isSuccess |-> v.isSuccess, tx |-> TransactionId(p)]

\* every outcome some callback request produces
CallbackOutcomes ==
    { CallbackOutcome(param, p, sig, ext) :
        param \in ProviderParams,
        <<p, sig>> \in UNION { { <<q, s>> : s \in SignaturesFor(q) } : q \in QueryParams },
        ext \in BOOLEAN }

----------------------------------------------------------------------------
(* walletController.topupWallet *)

MinTopup == 10

\* protect, then the handler up to its first database operation
StartTopup(h) ==
    /\ pc[h] = "idle"
    /\ RoomForTx
    /\ \E r \in {Protect(token) : token \in Tokens} :
         IF r # "next"
         THEN Done(h, [NoLoc EXCEPT !.op = "topup", !.resp = r])
         ELSE \E u \in DOMAIN users, a \in TopupAmounts, m \in PaymentMethods :
                /\ Protect(Jwt(u)) = "next"
                /\ IF a < MinTopup
                   THEN Done(h, [NoLoc EXCEPT !.op = "topup", !.authed = TRUE,
                                   !.resp = "400 Minimum top-up amount is $10"])
                   ELSE Goto(h, "topup",
                             [NoLoc EXCEPT !.op = "topup", !.authed = TRUE,
                                           !.user = u,
                                           !.ubal = users[u].balance,
                                           !.amount = a, !.provider = m])
    /\ UNCHANGED <<users, txs, purchases, purchaseCount, delivered, other>>

\* Transaction.create({type: "topup", status: "pending"}), then
\* paymentService.createPayment, which succeeds or not
Topup(h) ==
    /\ pc[h] = "topup"
    /\ LET l == loc[h] IN
       IF l.provider \notin PaymentMethodEnum
       THEN /\ Done(h, [NoLoc EXCEPT !.op = "topup", !.authed = TRUE,
                          !.resp = "500 ValidationError"])
            /\ UNCHANGED txs
       ELSE /\ txs' = Append(txs, [user |-> l.user, type |-> "topup",
                                   amount |-> l.amount, status |-> "pending",
                                   project |-> "", applied |-> 0,
                                   balanceBefore |-> l.ubal,
                                   balanceAfter |-> l.ubal, stored |-> 0])
            /\ \E created \in BOOLEAN :
                 Done(h, [NoLoc EXCEPT !.op = "topup", !.authed = TRUE,
                            !.resp = IF created THEN "200" ELSE "400 payment error"])
    /\ UNCHANGED <<users, purchases, purchaseCount, delivered, other>>

----------------------------------------------------------------------------
(* walletController.processPayment *)

StartPayment(h) ==
    /\ pc[h] = "idle"
    /\ RoomForTx
    /\ \E r \in {Protect(token) : token \in Tokens} :
         IF r # "next"
         THEN Done(h, [NoLoc EXCEPT !.op = "payment", !.resp = r])
         ELSE \E u \in DOMAIN users, a \in PayAmounts, pr \in Projects :
                /\ Protect(Jwt(u)) = "next"
                /\ Goto(h, "pay_check",
                        [NoLoc EXCEPT !.op = "payment", !.authed = TRUE,
                                      !.user = u, !.ubal = users[u].balance,
                                      !.amount = a, !.project = pr])
    /\ UNCHANGED <<users, txs, purchases, purchaseCount, delivered, other>>

\* Purchase.hasUserPurchased
HasUserPurchased(u, pr) ==
    \E x \in purchases : x.user = u /\ x.project = pr /\ x.status = "completed"

\* req.user.balance < amount, on the balance protect has read
Insufficient(ubal, amount) == ubal < amount

PayCheck(h) ==
    /\ pc[h] = "pay_check"
    /\ LET l == loc[h] IN
       IF HasUserPurchased(l.user, l.project)
       THEN Done(h, [NoLoc EXCEPT !.op = "payment", !.authed = TRUE,
                       !.resp = "400 You have already purchased this project"])
       ELSE IF Insufficient(l.ubal, l.amount)
       THEN Done(h, [NoLoc EXCEPT !.op = "payment", !.authed = TRUE,
                       !.resp = "400 Insufficient balance"])
       ELSE Goto(h, "pay_create", l)
    /\ UNCHANGED <<users, txs, purchases, purchaseCount, delivered, other>>

\* Transaction.create({type: "purchase", amount: -amount, status: "completed"})
PayCreate(h) ==
    /\ pc[h] = "pay_create"
    /\ LET l == loc[h] IN
       /\ txs' = Append(txs, [user |-> l.user, type |-> "purchase",
                              amount |-> -l.amount, status |-> "completed",
                              project |-> l.project, applied |-> 0,
                              balanceBefore |-> l.ubal,
                              balanceAfter |-> l.ubal - l.amount, stored |-> 0])
       /\ Goto(h, "pay_inc", [l EXCEPT !.tx = Len(txs) + 1, !.ubal = 0])
    /\ UNCHANGED <<users, purchases, purchaseCount, delivered, other>>

\* User.findByIdAndUpdate(req.user._id, {$inc: {balance: -amount}}): update
\* validators are off, so the schema's min: 0 is not applied
PayInc(h) ==
    /\ pc[h] = "pay_inc"
    /\ LET l == loc[h] IN
       /\ users' = IncBalance(l.user, -l.amount)
       /\ txs' = [txs EXCEPT ![l.tx].applied = @ + 1,
                             ![l.tx].stored = users[l.user].balance]
       /\ Goto(h, "pay_purchase", l)
    /\ UNCHANGED <<purchases, purchaseCount, delivered, other>>

\* the unique index {user: 1, project: 1} of the Purchase collection
DuplicateKey(u, pr) == \E x \in purchases : x.user = u /\ x.project = pr

\* Purchase.create: amount has min: 0; then the unique index
PayPurchase(h) ==
    /\ pc[h] = "pay_purchase"
    /\ LET l == loc[h] IN
       IF l.amount < 0
       THEN /\ Done(h, [NoLoc EXCEPT !.op = "payment", !.authed = TRUE,
                       !.resp = "500 ValidationError"])
            /\ UNCHANGED purchases
       ELSE IF DuplicateKey(l.user, l.project)
       THEN /\ Done(h, [NoLoc EXCEPT !.op = "payment", !.authed = TRUE,
                       !.resp = "500 E11000 duplicate key"])
            /\ UNCHANGED purchases
       ELSE /\ purchases' = purchases \cup
                  {[user |-> l.user, project |-> l.project, transaction |-> l.tx,
                    amount |-> l.amount, status |-> "completed"]}
            /\ Goto(h, "pay_url", l)
    /\ UNCHANGED <<users, txs, purchaseCount, delivered, other>>

\* purchase.generateDownloadUrl(): require("crypto") inside an ES module: the
\* call throws where require is not defined and saves the URL where it is
PayUrl(h) ==
    /\ pc[h] = "pay_url"
    /\ LET l == loc[h] IN
       \E requireDefined \in BOOLEAN :
         IF requireDefined
         THEN Goto(h, "pay_count", l)
         ELSE Done(h, [NoLoc EXCEPT !.op = "payment", !.authed = TRUE,
                       !.resp = "500 ReferenceError"])
    /\ UNCHANGED <<users, txs, purchases, purchaseCount, delivered, other>>

\* Project.findByIdAndUpdate(projectId, {$inc: {purchaseCount: 1}})
PayCount(h) ==
    /\ pc[h] = "pay_count"
    /\ LET l == loc[h] IN
       /\ purchaseCount' = [purchaseCount EXCEPT ![l.project] = @ + 1]
       /\ Done(h, [NoLoc EXCEPT !.op = "payment", !.authed = TRUE,
                       !.resp = "200"])
    /\ UNCHANGED <<users, txs, purchases, delivered, other>>

----------------------------------------------------------------------------
(* walletController.handlePaymentCallback, behind router.use(protect) *)

IsTopupPending(t) ==
    t \in DOMAIN txs /\ txs[t].type = "topup" /\ txs[t].status = "pending"

IsHmacProvider(provider) == provider \in {"vnpay", "momo"}

\* ghost fields of a callback: what it asked for when it arrived
Arrived(o, authed) ==
    [NoLoc EXCEPT !.op = "callback", !.authed = authed,
                  !.provider = o.provider, !.success = o.success,
                  !.tx = o.tx, !.pend = IsTopupPending(o.tx),
                  !.retry = authed /\ o.success /\ IsHmacProvider(o.provider)
                            /\ o.tx \in delivered]

\* a finished callback keeps its ghost fields where a property or the history
\* of deliveries reads them: it was successfully verified, it named an
\* existing transaction, and it either ran the handler for VNPay or MoMo or
\* named a top-up that was pending
Answered(l, resp) ==
    IF /\ l.success
       /\ l.tx \in DOMAIN txs
       /\ IF l.authed THEN IsHmacProvider(l.provider) \/ l.pend
          ELSE l.pend /\ resp = "401 Not authorized, no token"
    THEN [l EXCEPT !.resp = resp, !.isValid = FALSE, !.isSuccess = FALSE]
    ELSE [NoLoc EXCEPT !.op = "callback", !.authed = l.authed, !.resp = resp]

StartCallback(h) ==
    /\ pc[h] = "idle"
    /\ \E r \in {Protect(token) : token \in Tokens} :
         IF r \notin {"next", "401 Not authorized, no token"}
         THEN Done(h, [NoLoc EXCEPT !.op = "callback", !.resp = r])
         ELSE \E o \in CallbackOutcomes :
                LET l == Arrived(o, r = "next") IN
                IF r # "next" THEN Done(h, Answered(l, r))
                ELSE IF o.threw THEN Done(h, Answered(l, "500 TypeError"))
                ELSE IF ~o.success THEN Done(h, Answered(l, "302 status=error"))
                ELSE IF o.tx = 0 THEN Done(h, Answered(l, "302 status=success"))
                ELSE Goto(h, "cb_find",
                          [l EXCEPT !.isValid = o.isValid,
                                    !.isSuccess = o.isSuccess])
    /\ UNCHANGED <<users, txs, purchases, purchaseCount, delivered, other>>

\* mutant: the status of the transaction is not looked at
IsPendingAnyStatus(t) == t \in DOMAIN txs

\* transaction && transaction.status === "pending"
IsPending(t) == t \in DOMAIN txs /\ txs[t].status = "pending"

\* Transaction.findById(transactionId)
CbFind(h) ==
    /\ pc[h] = "cb_find"
    /\ LET l == loc[h] IN
       IF IsPending(l.tx)
       THEN Goto(h, "cb_mark", l)
       ELSE Done(h, Answered(l, "302 status=success"))
    /\ UNCHANGED <<users, txs, purchases, purchaseCount, delivered, other>>

\* mutant: the new status is never saved
MarkCompletedUnsaved(t) == txs

\* Transaction.markCompleted: this.status = "completed"; return this.save()
MarkCompleted(t) == [txs EXCEPT ![t].status = "completed"]

\* transaction.markCompleted() on the document read by CbFind
CbMark(h) ==
    /\ pc[h] = "cb_mark"
    /\ txs' = MarkCompleted(loc[h].tx)
    /\ Goto(h, "cb_inc", loc[h])
    /\ UNCHANGED <<users, purchases, purchaseCount, delivered, other>>

\* User.findByIdAndUpdate(transaction.user, {$inc: {balance: transaction.amount}})
CbInc(h) ==
    /\ pc[h] = "cb_inc"
    /\ LET l == loc[h] IN
       /\ users' = IncBalance(txs[l.tx].user, txs[l.tx].amount)
       /\ txs' = [txs EXCEPT ![l.tx].applied = @ + 1,
                             ![l.tx].stored = users[txs[l.tx].user].balance]
       /\ Done(h, Answered(l, "302 status=success"))
    /\ UNCHANGED <<purchases, purchaseCount, delivered, other>>

----------------------------------------------------------------------------
(* authController.register, behind registerValidation *)

\* req.body.email of POST /register
EmailInputs ==
    {"user@nextgenai.com", "new@example.com", "New@Example.com", "invalid-email"}
OtpCodes == {"123456", "654321"}
\* req.body.password of POST /register
RegisterPasswords == {"password123", "123"}

\* body("password").isLength({min: 6})
IsLongEnough(password) == password # "123"

\* the 24 hours of generateOTP, the clock ticking once a day
OtpTtl == 1

\* body("email").isEmail()
IsEmail(e) == e # "invalid-email"

\* normalizeEmail() of the route, email.toLowerCase() of findByEmail and the
\* schema's lowercase: true
LowerCase(e) == IF e = "New@Example.com" THEN "new@example.com" ELSE e

\* User.findByEmail: findOne({email: email.toLowerCase()})
FindByEmail(e) == {i \in DOMAIN users : users[i].email = LowerCase(e)}

\* handlers that have still to insert their User document
Registering == {h \in Handlers : pc[h] \in {"reg_find", "reg_create"}}

StartRegister(h) ==
    /\ pc[h] = "idle"
    /\ Len(users) + Cardinality(Registering) < MaxUsers
    /\ \E e \in EmailInputs, password \in RegisterPasswords :
         IF ~IsEmail(e) \/ ~IsLongEnough(password)
         THEN Done(h, [NoLoc EXCEPT !.op = "register", !.resp = "400 Validation failed"])
         ELSE Goto(h, "reg_find",
                   [NoLoc EXCEPT !.op = "register", !.email = LowerCase(e),
                                 !.password = password,
                                 !.had = FindByEmail(e) # {}])
    /\ UNCHANGED <<users, txs, purchases, purchaseCount, delivered, other>>

\* const existingUser = await User.findByEmail(email)
RegFind(h) ==
    /\ pc[h] = "reg_find"
    /\ LET l == loc[h] IN
       IF FindByEmail(l.email) # {}
       THEN Done(h, [l EXCEPT !.resp = "400 User already exists with this email"])
       ELSE Goto(h, "reg_create", l)
    /\ UNCHANGED <<users, txs, purchases, purchaseCount, delivered, other>>

\* User.create({email, password, fullName}); the index on email is not unique
RegCreate(h) ==
    /\ pc[h] = "reg_create"
    /\ users' = Append(users, [email |-> LowerCase(loc[h].email),
                               verified |-> FALSE, balance |-> 0,
                               otpCode |-> "null", otpExpires |-> 0,
                               verificationToken |-> "null", lastLogin |-> now,
                               password |-> Hash(loc[h].password),
                               role |-> "user"])
    /\ Goto(h, "reg_otp", [loc[h] EXCEPT !.user = Len(users) + 1])
    /\ UNCHANGED <<txs, purchases, purchaseCount, delivered, other>>

\* user.generateOTP(); await user.save(); the OTP mail may fail, 201 either way
RegOtp(h) ==
    /\ pc[h] = "reg_otp"
    /\ \E otp \in OtpCodes :
         users' = [users EXCEPT ![loc[h].user].otpCode = otp,
                                ![loc[h].user].otpExpires = now + OtpTtl]
    /\ Done(h, [loc[h] EXCEPT !.resp = "201"])
    /\ UNCHANGED <<txs, purchases, purchaseCount, delivered, other>>

----------------------------------------------------------------------------
(* authController.verifyOTP, behind verifyOTPValidation *)

\* req.body.otp of POST /verify-otp
OtpInputs == OtpCodes \cup {"000000", "12ab"}

\* body("otp").isLength({min: 6, max: 6}).isNumeric()
IsSixDigits(otp) == otp # "12ab"

\* mutant: the expiry time is not looked at
VerifyOTPAnyTime(user, otp) == user.otpCode = otp

\* userSchema.methods.verifyOTP: this.otpCode === otp && this.otpExpires > new Date()
VerifyOTP(user, otp) == user.otpCode = otp /\ user.otpExpires > now

StartVerify(h) ==
    /\ pc[h] = "idle"
    /\ \E e \in EmailInputs, otp \in OtpInputs :
         IF ~IsEmail(e) \/ ~IsSixDigits(otp)
         THEN Done(h, [NoLoc EXCEPT !.op = "verify", !.resp = "400 Validation failed"])
         ELSE Goto(h, "vo_find",
                   [NoLoc EXCEPT !.op = "verify", !.email = LowerCase(e),
                                 !.otp = otp])
    /\ UNCHANGED <<users, txs, purchases, purchaseCount, delivered, other>>

\* const user = await User.findByEmail(email); user.verifyOTP(otp)
VoFind(h) ==
    /\ pc[h] = "vo_find"
    /\ LET l == loc[h] IN
       IF FindByEmail(l.email) = {}
       THEN Done(h, [l EXCEPT !.resp = "404 User not found"])
       ELSE \E u \in FindByEmail(l.email) :
              IF ~VerifyOTP(users[u], l.otp)
              THEN Done(h, [l EXCEPT !.user = u, !.resp = "400 Invalid or expired OTP"])
              ELSE Goto(h, "vo_save", [l EXCEPT !.user = u])
    /\ UNCHANGED <<users, txs, purchases, purchaseCount, delivered, other>>

\* user.verified = true; user.otpCode = null; user.otpExpires = null;
\* await user.save(); the tokens are generated and sent
VoSave(h) ==
    /\ pc[h] = "vo_save"
    /\ users' = [users EXCEPT ![loc[h].user].verified = TRUE,
                              ![loc[h].user].otpCode = "null",
                              ![loc[h].user].otpExpires = 0]
    /\ Done(h, [loc[h] EXCEPT !.resp = "200 accessToken"])
    /\ UNCHANGED <<txs, purchases, purchaseCount, delivered, other>>

----------------------------------------------------------------------------
(* authController.login, behind loginValidation *)

\* req.body.password of POST /login
LoginPasswords == {"password123", "user123", "wrongpassword", ""}

\* body("password").notEmpty()
NotEmpty(password) == password # ""

\* mutant: every password is accepted
MatchPasswordAny(user, enteredPassword) == TRUE

\* userSchema.methods.matchPassword: bcrypt.compare(enteredPassword, this.password)
MatchPassword(user, enteredPassword) == user.password = Hash(enteredPassword)

StartLogin(h) ==
    /\ pc[h] = "idle"
    /\ \E e \in EmailInputs, password \in LoginPasswords :
         IF ~IsEmail(e) \/ ~NotEmpty(password)
         THEN Done(h, [NoLoc EXCEPT !.op = "login", !.resp = "400 Validation failed"])
         ELSE Goto(h, "login_find",
                   [NoLoc EXCEPT !.op = "login", !.email = LowerCase(e),
                                 !.password = password])
    /\ UNCHANGED <<users, txs, purchases, purchaseCount, delivered, other>>

\* User.findByEmail(email).select("+password"), matchPassword, verified
LoginFind(h) ==
    /\ pc[h] = "login_find"
    /\ LET l == loc[h] IN
       IF FindByEmail(l.email) = {}
       THEN Done(h, [l EXCEPT !.resp = "401 Invalid credentials"])
       ELSE \E u \in FindByEmail(l.email) :
              IF ~MatchPassword(users[u], l.password)
              THEN Done(h, [l EXCEPT !.user = u, !.resp = "401 Invalid credentials"])
              ELSE IF ~users[u].verified
              THEN Done(h, [l EXCEPT !.user = u,
                                     !.resp = "401 Please verify your email address first"])
              ELSE Goto(h, "login_save", [l EXCEPT !.user = u])
    /\ UNCHANGED <<users, txs, purchases, purchaseCount, delivered, other>>

\* await user.updateLastLogin(); the tokens are generated and sent
LoginSave(h) ==
    /\ pc[h] = "login_save"
    /\ users' = [users EXCEPT ![loc[h].user].lastLogin = now]
    /\ Done(h, [loc[h] EXCEPT !.resp = "200 accessToken"])
    /\ UNCHANGED <<txs, purchases, purchaseCount, delivered, other>>

----------------------------------------------------------------------------
(* authMiddleware.protect, step by step, in front of a route handler *)

\* protect up to its await: no bearer header or jwt.verify throwing answers
\* 401 at once; otherwise User.findById(decoded.id) is awaited
PrStart(h) ==
    /\ pc[h] = "idle"
    /\ \E token \in Headers :
         LET l == [NoLoc EXCEPT !.op = "protect", !.token = token] IN
         IF token.kind # "jwt"
         THEN Done(h, [l EXCEPT !.sent = 1, !.resp = Protect(token)])
         ELSE Goto(h, "pr_find", l)
    /\ UNCHANGED <<users, txs, purchases, purchaseCount, delivered, other>>

\* req.user = await User.findById(decoded.id); 401 and return, or next()
PrFind(h) ==
    /\ pc[h] = "pr_find"
    /\ LET l == loc[h]
           r == Protect(l.token) IN
       IF r # "next"
       THEN Done(h, [l EXCEPT !.sent = l.sent + 1, !.resp = r])
       ELSE Goto(h, "route", [l EXCEPT !.nextCalls = l.nextCalls + 1,
                                       !.user = l.token.id])
    /\ UNCHANGED <<users, txs, purchases, purchaseCount, delivered, other>>

\* the route handler, which next() has started, answers
RouteHandler(h) ==
    /\ pc[h] = "route"
    /\ Done(h, [loc[h] EXCEPT !.resp = "route handler"])
    /\ UNCHANGED <<users, txs, purchases, purchaseCount, delivered, other>>

----------------------------------------------------------------------------
(* projectController.createProject, updateProject and deleteProject, behind
   protect and authorOnly *)

\* req.body of POST and PUT: a title, and an author field (0: none)
ProjectBodies == [author : 0..MaxUsers, title : {"t1", "t2"}]

\* mutant: every authenticated user passes
AuthorOnlyAnyRole(u) == TRUE

\* authorOnly: req.user.role === "admin" || req.user.role === "author"
AuthorOnly(u) == users[u].role \in {"admin", "author"}

\* project.author is req.user._id, or req.user.role is "admin"
MayManage(project, u) == project.author = u \/ users[u].role = "admin"

\* protect and authorOnly in front of a project route
StartProject(h, op, next) ==
    /\ pc[h] = "idle"
    /\ \E r \in {Protect(token) : token \in Tokens} :
         IF r # "next"
         THEN Done(h, [NoLoc EXCEPT !.op = op, !.resp = r])
         ELSE \E u \in DOMAIN users, pr \in Projects, body \in ProjectBodies :
                /\ Protect(Jwt(u)) = "next"
                /\ body.author \in {0} \cup DOMAIN users
                /\ IF ~AuthorOnly(u)
                   THEN Done(h, [NoLoc EXCEPT !.op = op, !.authed = TRUE, !.user = u,
                                   !.resp = "403 Not authorized as an author"])
                   ELSE Goto(h, next,
                             [NoLoc EXCEPT !.op = op, !.authed = TRUE, !.user = u,
                                           !.project = IF op = "create" THEN "" ELSE pr,
                                           !.body = IF op = "delete" THEN NoLoc.body
                                                    ELSE body])
    /\ UNCHANGED <<users, txs, purchases, purchaseCount, delivered, other>>

StartCreate(h) == StartProject(h, "create", "proj_create")
StartUpdate(h) == StartProject(h, "update", "upd_find")
StartDelete(h) == StartProject(h, "delete", "del_find")

\* Project.create({...req.body, author: req.user._id})
ProjCreate(h) ==
    /\ pc[h] = "proj_create"
    /\ \E pr \in Projects :
         /\ ~projectDocs[pr].exists
         /\ projectDocs' = [projectDocs EXCEPT
                               ![pr] = [exists |-> TRUE, author |-> loc[h].user,
                                        title |-> loc[h].body.title]]
         /\ Done(h, [loc[h] EXCEPT !.project = pr, !.body = NoLoc.body, !.resp = "201"])
    /\ UNCHANGED <<users, txs, purchases, purchaseCount, delivered, now, stores>>

\* Project.findById(req.params.id), then the author-or-admin check
ManageFind(h, label, next) ==
    /\ pc[h] = label
    /\ LET l == loc[h] IN
       IF ~projectDocs[l.project].exists
       THEN Done(h, [l EXCEPT !.body = NoLoc.body, !.resp = "404 Project not found"])
       ELSE IF ~MayManage(projectDocs[l.project], l.user)
       THEN Done(h, [l EXCEPT !.body = NoLoc.body, !.resp = "403 Not authorized"])
       ELSE Goto(h, next, l)
    /\ UNCHANGED <<users, txs, purchases, purchaseCount, delivered, other>>

UpdFind(h) == ManageFind(h, "upd_find", "upd_write")
DelFind(h) == ManageFind(h, "del_find", "del_write")

\* Project.findByIdAndUpdate(req.params.id, req.body, {new: true})
UpdWrite(h) ==
    /\ pc[h] = "upd_write"
    /\ LET l == loc[h]
           doc == projectDocs[l.project] IN
       /\ projectDocs' =
            IF doc.exists
            THEN [projectDocs EXCEPT
                    ![l.project].title = l.body.title,
                    ![l.project].author =
                        IF l.body.author = 0 THEN doc.author ELSE l.body.author]
            ELSE projectDocs
       /\ Done(h, [l EXCEPT !.body = NoLoc.body, !.resp = "200"])
    /\ UNCHANGED <<users, txs, purchases, purchaseCount, delivered, now, stores>>

\* Project.findByIdAndDelete(req.params.id)
DelWrite(h) ==
    /\ pc[h] = "del_write"
    /\ projectDocs' = [projectDocs EXCEPT ![loc[h].project] = NoProject]
    /\ Done(h, [loc[h] EXCEPT !.body = NoLoc.body, !.resp = "200"])
    /\ UNCHANGED <<users, txs, purchases, purchaseCount, delivered, now, stores>>

----------------------------------------------------------------------------
(* authController.forgotPassword, behind forgotPasswordValidation *)

\* mailOk: whether emailService.sendPasswordResetEmail would succeed while
\* the request is handled
StartForgot(h) ==
    /\ pc[h] = "idle"
    /\ \E e \in EmailInputs, mailOk \in BOOLEAN :
         IF ~IsEmail(e)
         THEN Done(h, [NoLoc EXCEPT !.op = "forgot", !.resp = "400 Validation failed"])
         ELSE Goto(h, "fp_find",
                   [NoLoc EXCEPT !.op = "forgot", !.email = LowerCase(e),
                                 !.mailOk = mailOk])
    /\ UNCHANGED <<users, txs, purchases, purchaseCount, delivered, other>>

\* the answer that does not say whether the account exists
GenericAnswer == "200 If the email exists, a password reset link has been sent"

\* const user = await User.findByEmail(email)
FpFind(h) ==
    /\ pc[h] = "fp_find"
    /\ LET l == loc[h] IN
       IF FindByEmail(l.email) = {}
       THEN Done(h, [l EXCEPT !.resp = GenericAnswer])
       ELSE \E u \in FindByEmail(l.email) :
              Goto(h, "fp_save", [l EXCEPT !.user = u, !.had = TRUE])
    /\ UNCHANGED <<users, txs, purchases, purchaseCount, delivered, other>>

\* user.verificationToken = resetToken; await user.save(); then the mail:
\* sendEmail throws when the mail cannot be sent, and the catch answers 500
FpSave(h) ==
    /\ pc[h] = "fp_save"
    /\ LET l == loc[h] IN
       /\ users' = [users EXCEPT ![l.user].verificationToken = "resetToken"]
       /\ Done(h, [l EXCEPT !.resp = IF l.mailOk THEN GenericAnswer
                                     ELSE "500 Failed to send reset email"])
    /\ UNCHANGED <<txs, purchases, purchaseCount, delivered, other>>

----------------------------------------------------------------------------
(* MemoryCache, MockRedis and the Redis server: key-value stores whose    *)
(* keys expire, and the rate limiters and cache helpers built on them      *)

Limit == 2          \* limit argument of the rate limiters
Window == 2         \* window argument of the rate limiters, in ticks
MaxRequests == 4    \* calls of the limiters and of the cache helpers
MaxAttempts == 2    \* maxAttempts of bruteForceProtection
WindowMs == 2       \* windowMs of bruteForceProtection, in ticks

Times == 0..MaxTime
Identifiers == {"ip1", "ip2"}
Limiters == {"memory", "redis", "mock"}
CacheImpls == {"memory", "mock"}
CacheKeys == {"k1"}
CacheTtls == {1, 2}

\* JavaScript values held by the stores, tagged with their type
Num(n) == <<"num", n>>
Str(s) == <<"str", s>>
Undefined == <<"undefined", "">>
Null == <<"null", "">>
CacheValues == {Str("v1"), Str("v2")}

\* value ? ... : ...  and  value || ...
Truthy(v) ==
    /\ v[1] \notin {"undefined", "null"}
    /\ ~(v[1] = "num" /\ v[2] = 0)
    /\ ~(v[1] = "str" /\ v[2] = "")

IsAbsent(v) == v[1] \in {"undefined", "null"}

\* parseInt of a counter
ParseInt(v) == v[2]

JsonStringify(v) == <<"json", v>>
JsonParse(s) == s[2]

\* Map.get, Map.set and Map.delete
MapGet(map, key) == IF key \in DOMAIN map THEN map[key] ELSE Undefined
MapSet(map, key, value) ==
    [k \in DOMAIN map \cup {key} |-> IF k = key THEN value ELSE map[k]]
MapDelete(map, key) == [k \in DOMAIN map \ {key} |-> map[k]]
MapDeleteAll(map, keys) == [k \in DOMAIN map \ keys |-> map[k]]
EmptyMap == [k \in {} |-> Undefined]

BfIps == {"ip1"}
BfEmails == {"user@nextgenai.com", ""}

\* `${req.ip}:${req.body.email || req.body.username || "unknown"}`
BfKey(ip, email) == ip \o ":" \o (IF email = "" THEN "unknown" ELSE email)
BfKeys == {BfKey(ip, email) : ip \in BfIps, email \in BfEmails}

\* `rate_limit:${identifier}`
RateKey(identifier) == "rate_limit:" \o identifier

\* MemoryCache.set: the timer of the key is cleared and, for a positive ttl,
\* replaced by one that deletes the key ttl seconds from now. timers holds
\* the time at which the pending timer of a key fires
MemSet(mc, key, value, ttl) ==
    [cache |-> MapSet(mc.cache, key, value),
     timers |-> IF ttl > 0 THEN MapSet(mc.timers, key, now + ttl)
                ELSE MapDelete(mc.timers, key)]

\* MemoryCache.get
MemGet(mc, key) ==
    LET value == MapGet(mc.cache, key) IN IF Truthy(value) THEN value ELSE Null

\* MemoryCache.del
MemDel(mc, key) ==
    [cache |-> MapDelete(mc.cache, key), timers |-> MapDelete(mc.timers, key)]

\* MemoryCache.incr: the value it returns and the store it leaves
MemIncrValue(mc, key) ==
    LET current == IF Truthy(MapGet(mc.cache, key)) THEN MapGet(mc.cache, key)
                   ELSE Num(0)
    IN  ParseInt(current) + 1

MemIncr(mc, key, ttl) == MemSet(mc, key, Num(MemIncrValue(mc, key)), ttl)

\* the setTimeout callbacks of MemoryCache.set that are due at time t
MemFire(mc, t) ==
    LET due == {k \in DOMAIN mc.timers : mc.timers[k] <= t}
    IN  [cache |-> MapDeleteAll(mc.cache, due),
         timers |-> MapDeleteAll(mc.timers, due)]

\* the methods class MemoryCache defines
MemoryCacheMethods ==
    {"set", "get", "del", "exists", "mset", "mget", "incr", "hset", "hget",
     "hgetall", "sadd", "smembers", "zadd", "zrange", "flushall", "info",
     "keys"}

\* MockRedis.get
MockGet(mr, key) == MapGet(mr.data, key)

\* MockRedis.set with { EX: seconds }: every call starts one more timeout
\* that deletes the key; the timeouts started before are left running
MockSet(mr, key, value, seconds) ==
    [data |-> MapSet(mr.data, key, value),
     timers |-> IF seconds # 0 THEN mr.timers \cup {<<key, now + seconds>>}
                ELSE mr.timers]

\* MockRedis.del
MockDel(mr, key) == [data |-> MapDelete(mr.data, key), timers |-> mr.timers]

\* the setTimeout callbacks of MockRedis.set that are due at time t
MockFire(mr, t) ==
    LET due == {x \in mr.timers : x[2] <= t}
    IN  [data |-> MapDeleteAll(mr.data, {x[1] : x \in due}),
         timers |-> mr.timers \ due]

\* INCR and EXPIRE of the Redis server, and the expiry of its keys
RedisIncr(r, key) ==
    [r EXCEPT !.data = MapSet(r.data, key,
                              (IF key \in DOMAIN r.data THEN r.data[key] ELSE 0) + 1)]

RedisExpireKey(r, key, ttl) ==
    IF key \in DOMAIN r.data
    THEN [r EXCEPT !.expire = MapSet(r.expire, key, now + ttl)]
    ELSE r

RedisFire(r, t) ==
    LET due == {k \in DOMAIN r.expire : r.expire[k] <= t}
    IN  [r EXCEPT !.data = MapDeleteAll(r.data, due),
                  !.expire = MapDeleteAll(r.expire, due)]

----------------------------------------------------------------------------
(* history of the answers *)

NoEntry == [st |-> "none", value |-> Undefined, until |-> 0]

HistInit ==
    [allowedAt |-> [lim \in Limiters |-> [id \in Identifiers |-> [t \in Times |-> 0]]],
     passedAt |-> [k \in BfKeys |-> [t \in Times |-> 0]],
     bfLast |-> [key |-> "", status |-> "", seq |-> 0],
     lastSet |-> [impl \in CacheImpls |-> [k \in CacheKeys |-> NoEntry]],
     lastRead |-> [impl |-> "", key |-> "", value |-> Undefined],
     calls |-> 0]

StoresInitWith(real) ==
    /\ memoryCache = [cache |-> EmptyMap, timers |-> EmptyMap]
    /\ mockRedis = [data |-> EmptyMap, timers |-> {}]
    /\ redis = [hasRealRedis |-> real, data |-> EmptyMap, expire |-> EmptyMap]
    /\ attempts = EmptyMap
    /\ sessions = {}
    /\ hist = HistInit

\* without REDIS_URL in the environment hasRealRedis is false
StoresInit == StoresInitWith(FALSE)

----------------------------------------------------------------------------
(* the rate limiters *)

\* rateLimit.checkLimit: the answer for the counter value cache.incr returned
CheckLimitAnswer(current) == IF current > Limit THEN "blocked" ELSE "allowed"

\* the answer of a limiter enters the history
LimiterAnswered(lim, id, answer) ==
    IF answer = "allowed"
    THEN [hist EXCEPT !.allowedAt[lim][id][now] = @ + 1, !.calls = @ + 1]
    ELSE [hist EXCEPT !.calls = @ + 1]

\* rateLimit.checkLimit over the memory cache: cache.incr is
\* MemoryCache.incr, which runs without giving up the event loop
MemoryCheckLimit ==
    /\ hist.calls < MaxRequests
    /\ \E id \in Identifiers :
          LET key == RateKey(id)
              current == MemIncrValue(memoryCache, key)
          IN  /\ memoryCache' = MemIncr(memoryCache, key, Window)
              /\ hist' = LimiterAnswered("memory", id, CheckLimitAnswer(current))
    /\ UNCHANGED <<sessions, users, txs, purchases, purchaseCount, pc, loc, delivered,
                   now, projectDocs, mockRedis, redis, attempts>>

\* the mock rateLimiter.check: get, then set with { EX: window }
MockCheck ==
    /\ hist.calls < MaxRequests
    /\ \E key \in Identifiers :
          LET current == MockGet(mockRedis, key)
              count == ParseInt(current)
          IN  IF ~Truthy(current)
              THEN /\ mockRedis' = MockSet(mockRedis, key, Num(1), Window)
                   /\ hist' = LimiterAnswered("mock", key, "allowed")
              ELSE IF count >= Limit
              THEN /\ mockRedis' = mockRedis
                   /\ hist' = LimiterAnswered("mock", key, "blocked")
              ELSE /\ mockRedis' = MockSet(mockRedis, key, Num(count + 1), Window)
                   /\ hist' = LimiterAnswered("mock", key, "allowed")
    /\ UNCHANGED <<sessions, users, txs, purchases, purchaseCount, pc, loc, delivered,
                   now, projectDocs, memoryCache, redis, attempts>>

\* rateLimit.checkLimit of config/redis.js up to the answer of redis.incr.
\* Without a real Redis the client is null, redis.incr throws inside
\* cache.incr, which returns 0
RedisCheckLimit(h) ==
    /\ pc[h] = "idle"
    /\ hist.calls < MaxRequests
    /\ \E id \in Identifiers :
          LET key == RateKey(id)
              l == [NoLoc EXCEPT !.op = "limit", !.limiter = "redis",
                                 !.identifier = id]
          IN  IF ~redis.hasRealRedis
              THEN /\ redis' = redis
                   /\ hist' = LimiterAnswered("redis", id, CheckLimitAnswer(0))
                   /\ Done(h, [l EXCEPT !.resp = CheckLimitAnswer(0)])
              ELSE LET r == RedisIncr(redis, key)
                       result == r.data[key]
                   IN  /\ redis' = r
                       /\ IF result = 1
                          THEN /\ Goto(h, "rl_expire", [l EXCEPT !.current = result])
                               /\ hist' = [hist EXCEPT !.calls = @ + 1]
                          ELSE /\ Done(h, [l EXCEPT !.current = result,
                                                    !.resp = CheckLimitAnswer(result)])
                               /\ hist' = LimiterAnswered("redis", id, CheckLimitAnswer(result))
    /\ UNCHANGED <<sessions, users, txs, purchases, purchaseCount, delivered, now,
                   projectDocs, memoryCache, mockRedis, attempts>>

\* cache.incr of config/redis.js after the first increment: redis.expire,
\* then the answer of checkLimit
RedisExpire(h) ==
    /\ pc[h] = "rl_expire"
    /\ LET l == loc[h]
           answer == CheckLimitAnswer(l.current)
       IN  /\ redis' = RedisExpireKey(redis, RateKey(l.identifier), Window)
           /\ hist' = [LimiterAnswered("redis", l.identifier, answer) EXCEPT !.calls = hist.calls]
           /\ Done(h, [l EXCEPT !.resp = answer])
    /\ UNCHANGED <<sessions, users, txs, purchases, purchaseCount, delivered, now,
                   projectDocs, memoryCache, mockRedis, attempts>>

----------------------------------------------------------------------------
(* securityMiddleware.bruteForceProtection *)

\* filter((time) => time > windowStart)
InWindow(time, windowStart) == time > windowStart

\* mutant: one attempt more than maxAttempts is let through
TooManyStrict(userAttempts) == Len(userAttempts) > MaxAttempts

\* userAttempts.length >= maxAttempts
TooMany(userAttempts) == Len(userAttempts) >= MaxAttempts

BruteForceProtection ==
    /\ \E ip \in BfIps, email \in BfEmails :
          LET key == BfKey(ip, email)
              windowStart == now - WindowMs
              userAttempts ==
                  IF key \in DOMAIN attempts
                  THEN SelectSeq(attempts[key], LAMBDA time : InWindow(time, windowStart))
                  ELSE << >>
              seq == 1 - hist.bfLast.seq
          IN  IF TooMany(userAttempts)
              THEN /\ attempts' = MapSet(attempts, key, userAttempts)
                   /\ hist' = [hist EXCEPT !.bfLast =
                                  [key |-> key, status |-> "429", seq |-> seq]]
              ELSE /\ attempts' = MapSet(attempts, key, Append(userAttempts, now))
                   /\ hist' = [hist EXCEPT
                                  !.passedAt[key][now] = @ + 1,
                                  !.bfLast =
                                      [key |-> key, status |-> "next", seq |-> seq]]
    /\ UNCHANGED <<sessions, users, txs, purchases, purchaseCount, pc, loc, delivered,
                   now, projectDocs, memoryCache, mockRedis, redis>>

----------------------------------------------------------------------------
(* the cache helpers *)

\* a call of cache.set enters the history
SetRecorded(impl, key, value, ttl) ==
    [hist EXCEPT !.lastSet[impl][key] =
                     [st |-> "set", value |-> value, until |-> now + ttl],
                 !.calls = @ + 1]

DelRecorded(impl, key) ==
    [hist EXCEPT !.lastSet[impl][key] = [NoEntry EXCEPT !.st = "deleted"],
                 !.calls = @ + 1]

GetRecorded(impl, key, value) ==
    [hist EXCEPT !.lastRead = [impl |-> impl, key |-> key, value |-> value],
                 !.calls = @ + 1]

\* cache.set of the memory cache: memoryCache.setex(key, ttl, serializedValue).
\* Calling a method the class does not define throws a TypeError, which the
\* catch block turns into the return value false
CacheSet ==
    /\ hist.calls < MaxRequests
    /\ \E key \in CacheKeys, value \in CacheValues, ttl \in CacheTtls :
          /\ memoryCache' =
                IF "setex" \in MemoryCacheMethods
                THEN MemSet(memoryCache, key, JsonStringify(value), ttl)
                ELSE memoryCache
          /\ hist' = SetRecorded("memory", key, value, ttl)
    /\ UNCHANGED <<sessions, users, txs, purchases, purchaseCount, pc, loc, delivered,
                   now, projectDocs, mockRedis, redis, attempts>>

\* what cache.get of the memory cache returns
CacheGetValue(key) ==
    LET value == MemGet(memoryCache, key)
    IN  IF Truthy(value) THEN JsonParse(value) ELSE Null

CacheGet ==
    /\ hist.calls < MaxRequests
    /\ \E key \in CacheKeys :
          hist' = GetRecorded("memory", key, CacheGetValue(key))
    /\ UNCHANGED <<sessions, users, txs, purchases, purchaseCount, pc, loc, delivered,
                   now, projectDocs, memoryCache, mockRedis, redis, attempts>>

CacheDel ==
    /\ hist.calls < MaxRequests
    /\ \E key \in CacheKeys :
          /\ memoryCache' = MemDel(memoryCache, key)
          /\ hist' = DelRecorded("memory", key)
    /\ UNCHANGED <<sessions, users, txs, purchases, purchaseCount, pc, loc, delivered,
                   now, projectDocs, mockRedis, redis, attempts>>

\* cache.set, cache.get and cache.del of the mock Redis service
MockCacheSet ==
    /\ hist.calls < MaxRequests
    /\ \E key \in CacheKeys, value \in CacheValues, ttl \in CacheTtls :
          /\ mockRedis' = MockSet(mockRedis, key, value, ttl)
          /\ hist' = SetRecorded("mock", key, value, ttl)
    /\ UNCHANGED <<sessions, users, txs, purchases, purchaseCount, pc, loc, delivered,
                   now, projectDocs, memoryCache, redis, attempts>>

MockCacheGet ==
    /\ hist.calls < MaxRequests
    /\ \E key \in CacheKeys :
          hist' = GetRecorded("mock", key, MockGet(mockRedis, key))
    /\ UNCHANGED <<sessions, users, txs, purchases, purchaseCount, pc, loc, delivered,
                   now, projectDocs, memoryCache, mockRedis, redis, attempts>>

MockCacheDel ==
    /\ hist.calls < MaxRequests
    /\ \E key \in CacheKeys :
          /\ mockRedis' = MockDel(mockRedis, key)
          /\ hist' = DelRecorded("mock", key)
    /\ UNCHANGED <<sessions, users, txs, purchases, purchaseCount, pc, loc, delivered,
                   now, projectDocs, memoryCache, redis, attempts>>

\* what a read of the key returns now
Read(impl, key) ==
    IF impl = "memory" THEN CacheGetValue(key) ELSE MockGet(mockRedis, key)

----------------------------------------------------------------------------
(* the clock: time passes and the timers that are due run *)

Tick ==
    /\ now < MaxTime
    /\ now' = now + 1
    /\ memoryCache' = MemFire(memoryCache, now + 1)
    /\ mockRedis' = MockFire(mockRedis, now + 1)
    /\ redis' = RedisFire(redis, now + 1)
    /\ UNCHANGED <<sessions, users, txs, purchases, purchaseCount, pc, loc, delivered,
                   projectDocs, attempts, hist>>

----------------------------------------------------------------------------
(* the response is sent and the handler slot is free again *)

Finish(h) ==
    /\ pc[h] = "done"
    /\ pc' = [pc EXCEPT ![h] = "idle"]
    /\ loc' = [loc EXCEPT ![h] = NoLoc]
    /\ UNCHANGED <<users, txs, purchases, purchaseCount, delivered, other>>

\* the same, with the history of deliveries kept: the transactions named by
\* successfully verified VNPay and MoMo callbacks that passed protect
FinishRecorded(h) ==
    /\ pc[h] = "done"
    /\ pc' = [pc EXCEPT ![h] = "idle"]
    /\ loc' = [loc EXCEPT ![h] = NoLoc]
    /\ delivered' =
         IF /\ loc[h].op = "callback" /\ loc[h].authed /\ loc[h].success
            /\ IsHmacProvider(loc[h].provider) /\ loc[h].tx \in DOMAIN txs
         THEN delivered \cup {loc[h].tx}
         ELSE delivered
    /\ UNCHANGED <<users, txs, purchases, purchaseCount, other>>

----------------------------------------------------------------------------

Init ==
    /\ users = SeedUsers
    /\ txs = << >>
    /\ purchases = {}
    /\ purchaseCount = [p \in Projects |-> 0]
    /\ pc = [h \in Handlers |-> "idle"]
    /\ loc = [h \in Handlers |-> NoLoc]
    /\ delivered = {}
    /\ now = 0
    /\ projectDocs = SeedProjects
    /\ StoresInit

\* requests served concurrently
Next ==
    \/ \E h \in Handlers : StartTopup(h)
    \/ \E h \in Handlers : Topup(h)
    \/ \E h \in Handlers : StartPayment(h)
    \/ \E h \in Handlers : PayCheck(h)
    \/ \E h \in Handlers : PayCreate(h)
    \/ \E h \in Handlers : PayInc(h)
    \/ \E h \in Handlers : PayPurchase(h)
    \/ \E h \in Handlers : PayUrl(h)
    \/ \E h \in Handlers : PayCount(h)
    \/ \E h \in Handlers : StartCallback(h)
    \/ \E h \in Handlers : CbFind(h)
    \/ \E h \in Handlers : CbMark(h)
    \/ \E h \in Handlers : CbInc(h)
    \/ \E h \in Handlers : Finish(h)

Spec == Init /\ [][Next]_vars

\* requests served one after the other: a request starts when no other is in
\* flight
Alone(h) == \A g \in Handlers \ {h} : pc[g] = "idle"

SeqNext ==
    \/ \E h \in Handlers : Alone(h) /\ StartTopup(h)
    \/ \E h \in Handlers : Alone(h) /\ Topup(h)
    \/ \E h \in Handlers : Alone(h) /\ StartPayment(h)
    \/ \E h \in Handlers : Alone(h) /\ PayCheck(h)
    \/ \E h \in Handlers : Alone(h) /\ PayCreate(h)
    \/ \E h \in Handlers : Alone(h) /\ PayInc(h)
    \/ \E h \in Handlers : Alone(h) /\ PayPurchase(h)
    \/ \E h \in Handlers : Alone(h) /\ PayUrl(h)
    \/ \E h \in Handlers : Alone(h) /\ PayCount(h)
    \/ \E h \in Handlers : Alone(h) /\ StartCallback(h)
    \/ \E h \in Handlers : Alone(h) /\ CbFind(h)
    \/ \E h \in Handlers : Alone(h) /\ CbMark(h)
    \/ \E h \in Handlers : Alone(h) /\ CbInc(h)
    \/ \E h \in Handlers : Alone(h) /\ FinishRecorded(h)

SeqSpec == Init /\ [][SeqNext]_vars

\* register requests served concurrently
AuthNext ==
    \/ \E h \in Handlers : StartRegister(h)
    \/ \E h \in Handlers : RegFind(h)
    \/ \E h \in Handlers : RegCreate(h)
    \/ \E h \in Handlers : RegOtp(h)
    \/ \E h \in Handlers : StartVerify(h)
    \/ \E h \in Handlers : VoFind(h)
    \/ \E h \in Handlers : VoSave(h)
    \/ \E h \in Handlers : StartLogin(h)
    \/ \E h \in Handlers : LoginFind(h)
    \/ \E h \in Handlers : LoginSave(h)
    \/ Tick
    \/ \E h \in Handlers : Finish(h)

AuthSpec == Init /\ [][AuthNext]_vars

\* a user who has registered and has not yet verified the email address
UnverifiedUser ==
    [email |-> "new@example.com", verified |-> FALSE, balance |-> 0,
     otpCode |-> "123456", otpExpires |-> OtpTtl, verificationToken |-> "null", lastLogin |-> 0,
     password |-> Hash("password123"), role |-> "user"]

\* the seeded database after one registration
RegisteredInit ==
    /\ users = Append(SeedUsers, UnverifiedUser)
    /\ txs = << >>
    /\ purchases = {}
    /\ purchaseCount = [p \in Projects |-> 0]
    /\ pc = [h \in Handlers |-> "idle"]
    /\ loc = [h \in Handlers |-> NoLoc]
    /\ delivered = {}
    /\ now = 0
    /\ projectDocs = SeedProjects
    /\ StoresInit

\* requests to a protected route served concurrently
ProtectNext ==
    \/ \E h \in Handlers : PrStart(h)
    \/ \E h \in Handlers : PrFind(h)
    \/ \E h \in Handlers : RouteHandler(h)
    \/ \E h \in Handlers : Finish(h)

ProtectSpec == RegisteredInit /\ [][ProtectNext]_vars

\* scripts/seed.js: the admin
AdminUser ==
    [email |-> "admin@nextgenai.com", verified |-> TRUE, balance |-> 1000,
     otpCode |-> "null", otpExpires |-> 0, verificationToken |-> "null", lastLogin |-> 0,
     password |-> Hash("admin123"), role |-> "admin"]

\* the seeded database with its three users
SeededInit ==
    /\ users = Append(SeedUsers, AdminUser)
    /\ txs = << >>
    /\ purchases = {}
    /\ purchaseCount = [p \in Projects |-> 0]
    /\ pc = [h \in Handlers |-> "idle"]
    /\ loc = [h \in Handlers |-> NoLoc]
    /\ delivered = {}
    /\ now = 0
    /\ projectDocs = SeedProjects
    /\ StoresInit

\* requests to the project routes served concurrently
ProjectNext ==
    \/ \E h \in Handlers : StartCreate(h)
    \/ \E h \in Handlers : StartUpdate(h)
    \/ \E h \in Handlers : StartDelete(h)
    \/ \E h \in Handlers : ProjCreate(h)
    \/ \E h \in Handlers : UpdFind(h)
    \/ \E h \in Handlers : DelFind(h)
    \/ \E h \in Handlers : UpdWrite(h)
    \/ \E h \in Handlers : DelWrite(h)
    \/ \E h \in Handlers : Finish(h)

ProjectSpec == SeededInit /\ [][ProjectNext]_vars

\* forgot-password requests served concurrently
ForgotNext ==
    \/ \E h \in Handlers : StartForgot(h)
    \/ \E h \in Handlers : FpFind(h)
    \/ \E h \in Handlers : FpSave(h)
    \/ \E h \in Handlers : Finish(h)

ForgotSpec == Init /\ [][ForgotNext]_vars

\* the seeded database, in a process with or without a real Redis server
\* behind config/redis.js
LimiterInit ==
    /\ users = SeedUsers
    /\ txs = << >>
    /\ purchases = {}
    /\ purchaseCount = [p \in Projects |-> 0]
    /\ pc = [h \in Handlers |-> "idle"]
    /\ loc = [h \in Handlers |-> NoLoc]
    /\ delivered = {}
    /\ now = 0
    /\ projectDocs = SeedProjects
    /\ \E real \in BOOLEAN : StoresInitWith(real)

\* calls of the three rate limiters while time passes
LimiterNext ==
    \/ MemoryCheckLimit
    \/ MockCheck
    \/ \E h \in Handlers : RedisCheckLimit(h)
    \/ \E h \in Handlers : RedisExpire(h)
    \/ \E h \in Handlers : Finish(h)
    \/ Tick

LimiterSpec == LimiterInit /\ [][LimiterNext]_vars

\* requests through bruteForceProtection while time passes
BruteNext ==
    \/ BruteForceProtection
    \/ Tick

BruteSpec == Init /\ [][BruteNext]_vars

\* calls of the cache helpers while time passes
CacheNext ==
    \/ CacheSet
    \/ CacheGet
    \/ CacheDel
    \/ MockCacheSet
    \/ MockCacheGet
    \/ MockCacheDel
    \/ Tick

CacheSpec == Init /\ [][CacheNext]_vars

----------------------------------------------------------------------------
(* Properties *)

Quiescent == \A h \in Handlers : pc[h] = "idle"

RECURSIVE SumTx(_, _)
\* sum of F(t) over the transaction ids in S
SumTx(F(_), S) ==
    IF S = {} THEN 0
    ELSE LET t == CHOOSE x \in S : TRUE IN F(t) + SumTx(F, S \ {t})

TxOf(u) == {t \in DOMAIN txs : txs[t].user = u}

CompletedAmount(t) == IF txs[t].status = "completed" THEN txs[t].amount ELSE 0

\* C1: once every request has been answered, each user's stored balance is the
\* user's initial balance plus the amounts of the user's completed
\* transactions.
C1_BalanceIsInitialPlusCompleted ==
    Quiescent =>
        \A u \in DOMAIN SeedUsers :
            users[u].balance = SeedUsers[u].balance + SumTx(CompletedAmount, TxOf(u))

\* C2: whatever the interleaving of the callbacks for a top-up, its amount is
\* added to the owner's balance at most once, and exactly once when every
\* request has been answered and the top-up is completed.
C2_TopupCreditedExactlyOnce ==
    \A t \in DOMAIN txs :
        txs[t].type = "topup" =>
            /\ txs[t].applied <= 1
            /\ (Quiescent /\ txs[t].status = "completed") => txs[t].applied = 1

\* C3: while a successfully verified callback is handled again, after an equal
\* one has been handled, no transaction and no balance changes.
C3_RetryChangesNothing ==
    [][(\E h \in Handlers : pc[h] # "idle" /\ loc[h].retry)
          => (txs' = txs /\ users' = users)]_vars

\* C3 witness: a repeated callback has been answered, and the top-up it names
\* is completed and credited once.
C3_RetryWitness ==
    \E h \in Handlers :
        /\ pc[h] = "done" /\ loc[h].retry /\ loc[h].resp = "302 status=success"
        /\ txs[loc[h].tx].status = "completed" /\ txs[loc[h].tx].applied = 1

\* C4: a step of handlePaymentCallback changes a transaction or a balance only
\* if verifyPayment reported success, and for VNPay and MoMo only if the
\* recomputed HMAC equalled the signature and the result code was the success
\* code.
C4_ChangeOnlyWhenVerified ==
    [][\A h \in Handlers :
          (loc[h].op = "callback" /\ pc'[h] # pc[h]
             /\ (txs' # txs \/ users' # users))
          => /\ loc[h].success
             /\ IsHmacProvider(loc[h].provider) => (loc[h].isValid /\ loc[h].isSuccess)]_vars

\* C4 witness: a callback that failed verification has been answered while a
\* top-up is still pending.
C4_RejectedWitness ==
    \E h \in Handlers :
        /\ pc[h] = "done" /\ loc[h].op = "callback" /\ loc[h].authed
        /\ loc[h].resp = "302 status=error"
        /\ \E t \in DOMAIN txs : IsTopupPending(t)

DeliveredAmount(t) ==
    IF txs[t].type = "topup"
    THEN (IF t \in delivered THEN txs[t].amount ELSE 0)
    ELSE txs[t].amount

\* C5: with callbacks delivered one after the other, the status of a top-up
\* and the balance of its owner are determined by the set of verified callbacks
\* delivered for it, whatever their order and whatever failing callbacks came
\* in between.
C5_FinalStateFromDeliveredSet ==
    Quiescent =>
        /\ \A t \in DOMAIN txs :
              txs[t].type = "topup" =>
                  txs[t].status = (IF t \in delivered THEN "completed" ELSE "pending")
        /\ \A u \in DOMAIN SeedUsers :
              users[u].balance = SeedUsers[u].balance + SumTx(DeliveredAmount, TxOf(u))

\* C5 witness: two top-ups, one with a verified callback delivered and one
\* without, after every request has been answered.
C5_DeliveredWitness ==
    /\ Quiescent
    /\ \E t1, t2 \in DOMAIN txs :
          /\ txs[t1].type = "topup" /\ t1 \in delivered
          /\ txs[t2].type = "topup" /\ t2 \notin delivered

\* C6: a finished callback of any of the four providers that verifyPayment
\* reported successful and that named a pending top-up has left the top-up
\* completed and credited.
C6_VerifiedCallbackCompletes ==
    \A h \in Handlers :
        (pc[h] = "done" /\ loc[h].op = "callback" /\ loc[h].authed
           /\ loc[h].success /\ loc[h].pend)
        => (txs[loc[h].tx].status = "completed" /\ txs[loc[h].tx].applied >= 1)

\* C7: a callback without bearer token whose VNPay or MoMo signature verifies
\* and that names a pending top-up reaches the handler and completes it.
C7_CallbackIsPublic ==
    \A h \in Handlers :
        (pc[h] = "done" /\ loc[h].op = "callback" /\ ~loc[h].authed
           /\ IsHmacProvider(loc[h].provider) /\ loc[h].success /\ loc[h].pend)
        => (loc[h].resp = "302 status=success"
              /\ txs[loc[h].tx].status = "completed")

\* C8: no stored balance is negative.
C8_BalanceNotNegative == \A u \in DOMAIN users : users[u].balance >= 0

DebitsFor(u, pr) ==
    {t \in DOMAIN txs : /\ txs[t].type = "purchase" /\ txs[t].user = u
                        /\ txs[t].project = pr /\ txs[t].amount < 0
                        /\ txs[t].applied > 0}

\* C9: for each user and project there is at most one purchase record, and
\* the user's balance has been debited for the project at most once.
C9_NoDuplicatePurchase ==
    \A u \in DOMAIN users, pr \in Projects :
        /\ Cardinality({x \in purchases : x.user = u /\ x.project = pr}) <= 1
        /\ Cardinality(DebitsFor(u, pr)) <= 1

\* C10: no two accounts have the same email, and a register request for an
\* email that had an account when it arrived is answered 400 'User already
\* exists with this email'.
C10_OneAccountPerEmail ==
    /\ \A i, j \in DOMAIN users : users[i].email = users[j].email => i = j
    /\ \A h \in Handlers :
          (pc[h] = "done" /\ loc[h].op = "register" /\ loc[h].had)
          => loc[h].resp = "400 User already exists with this email"

LoginAnswered(h) ==
    /\ pc[h] = "done" /\ loc[h].op = "login"
    /\ loc[h].resp # "400 Validation failed"

C12_VerifiedOnlyByMatchingOtp ==
    [][/\ \A u \in DOMAIN users :
            (~users[u].verified /\ users'[u].verified)
            => \E h \in Handlers :
                  /\ pc[h] = "vo_save" /\ loc[h].user = u
                  /\ pc'[h] = "done" /\ loc'[h].resp = "200 accessToken"
       /\ \A h \in Handlers :
            (pc[h] = "vo_find" /\ pc'[h] # "vo_find" /\ loc'[h].user # 0)
            => LET u == loc'[h].user IN
               /\ users' = users
               /\ IF users[u].otpCode = loc[h].otp /\ users[u].otpExpires > now
                  THEN pc'[h] = "vo_save"
                  ELSE /\ pc'[h] = "done"
                       /\ loc'[h].resp = "400 Invalid or expired OTP"]_vars

\* C12 witness: a registered user has been verified by a request with the
\* stored code, and a request for an unverified user whose OTP had expired
\* has been answered 400.
C12_VerifyWitness ==
    \E h, g \in Handlers :
        /\ pc[h] = "done" /\ loc[h].op = "verify"
        /\ loc[h].resp = "200 accessToken" /\ users[loc[h].user].verified
        /\ loc[h].user > Len(SeedUsers)
        /\ pc[g] = "done" /\ loc[g].op = "verify"
        /\ loc[g].resp = "400 Invalid or expired OTP"
        /\ loc[g].user # 0 /\ ~users[loc[g].user].verified
        /\ users[loc[g].user].otpCode = loc[g].otp

\* C13: protect either has called next once, without sending a response and
\* with req.user an existing verified user named by a valid token, or has sent
\* one 401 response and not called next; a request without bearer token is
\* answered 401 'Not authorized, no token'.
C13_NextOrOne401 ==
    \A h \in Handlers :
        (loc[h].op = "protect" /\ pc[h] \in {"route", "done"}) =>
            /\ \/ /\ loc[h].nextCalls = 1 /\ loc[h].sent = 0
                  /\ loc[h].token.kind = "jwt"
                  /\ loc[h].user = loc[h].token.id
                  /\ loc[h].user \in DOMAIN users
                  /\ users[loc[h].user].verified
               \/ /\ loc[h].nextCalls = 0 /\ loc[h].sent = 1
                  /\ pc[h] = "done"
                  /\ loc[h].resp \in {"401 Not authorized, no token",
                                      "401 Not authorized, token failed",
                                      "401 Not authorized, user not found",
                                      "401 Please verify your email address first"}
            /\ loc[h].token.kind = "none"
                 => (loc[h].nextCalls = 0
                       /\ loc[h].resp = "401 Not authorized, no token")

\* C13 witness: one request has reached its route handler while another, of
\* an unverified user with a valid token, has been answered 401.
C13_ProtectWitness ==
    \E h, g \in Handlers :
        /\ pc[h] = "route" /\ loc[h].nextCalls = 1
        /\ pc[g] = "done" /\ loc[g].op = "protect" /\ loc[g].sent = 1
        /\ loc[g].resp = "401 Please verify your email address first"

\* C14: the Project collection changes only in the write of a request that
\* passed protect and authorOnly with a user of role author or admin; a
\* request goes on to update or delete a project only if, when it read the
\* project, its user was the project's author or an admin, and otherwise is
\* answered 403 or 404; a request refused with 401 or 403 changes no project.
C14_ProjectsChangedByAuthorOrAdmin ==
    [][/\ projectDocs' # projectDocs
          => \E h \in Handlers :
                /\ pc[h] \in {"proj_create", "upd_write", "del_write"}
                /\ pc'[h] = "done"
                /\ users[loc[h].user].role \in {"author", "admin"}
       /\ \A h \in Handlers :
            (pc[h] \in {"upd_find", "del_find"} /\ pc'[h] # pc[h])
            => LET doc == projectDocs[loc[h].project] IN
               IF doc.exists /\ (doc.author = loc[h].user
                                   \/ users[loc[h].user].role = "admin")
               THEN pc'[h] \in {"upd_write", "del_write"}
               ELSE /\ pc'[h] = "done"
                    /\ loc'[h].resp \in {"403 Not authorized", "404 Project not found"}
       /\ \A h \in Handlers :
            (pc[h] = "idle" /\ pc'[h] = "done")
            => /\ projectDocs' = projectDocs
               /\ loc'[h].resp \in
                    {"401 Not authorized, no token", "401 Not authorized, token failed",
                     "401 Not authorized, user not found",
                     "401 Please verify your email address first",
                     "403 Not authorized as an author"}
               /\ (loc'[h].authed => users[loc'[h].user].role = "user")]_vars

\* C14 witness: a user of role author has been refused the update or deletion
\* of a project of another user, while a project created by a request exists.
C14_RbacWitness ==
    /\ \E h \in Handlers :
          /\ pc[h] = "done" /\ loc[h].op \in {"update", "delete"}
          /\ loc[h].resp = "403 Not authorized"
          /\ users[loc[h].user].role = "author"
          /\ projectDocs[loc[h].project].exists
    /\ projectDocs["p2"].exists

ForgotAnswered(h) ==
    /\ pc[h] = "done" /\ loc[h].op = "forgot"
    /\ loc[h].resp # "400 Validation failed"

\* C15: two forgot-password requests that are handled with the mail service
\* in the same condition, one for an email with an account and one for an
\* email without, get the same answer.
C15_ForgotPasswordSameAnswer ==
    \A h, g \in Handlers :
        (ForgotAnswered(h) /\ ForgotAnswered(g)
           /\ loc[h].had /\ ~loc[g].had /\ loc[h].mailOk = loc[g].mailOk)
        => loc[h].resp = loc[g].resp

RECURSIVE SumOver(_, _)
\* sum of f[t] over the t in S
SumOver(f, S) ==
    IF S = {} THEN 0
    ELSE LET t == CHOOSE x \in S : TRUE IN f[t] + SumOver(f, S \ {t})

\* the times of a span that starts at s
Span(s, length) == {t \in Times : s <= t /\ t < s + length}

\* C16: for every identifier, each of the three rate limiters reports allowed
\* for at most Limit requests within any span of Window ticks.
C16_AtMostLimitPerWindow ==
    \A lim \in Limiters, id \in Identifiers, s \in Times :
        SumOver(hist.allowedAt[lim][id], Span(s, Window)) <= Limit

\* attempts recorded for the key inside the window that ends now
RecordedInWindow(key) ==
    IF key \in DOMAIN attempts
    THEN Cardinality({i \in DOMAIN attempts[key] :
                         InWindow(attempts[key][i], now - WindowMs)})
    ELSE 0

\* requests passed on per key in every window of WindowMs ticks
PassedWithinBound ==
    \A key \in BfKeys, s \in Times :
        SumOver(hist.passedAt[key], Span(s, WindowMs)) <= MaxAttempts

\* C17: bruteForceProtection passes on at most MaxAttempts requests per key
\* within any window of WindowMs ticks, and a request that arrives when
\* MaxAttempts attempts are recorded inside the window is answered 429 and
\* not passed on.
C17_BruteForceBound ==
    [][/\ PassedWithinBound'
       /\ \A key \in BfKeys :
             (/\ hist'.bfLast.seq # hist.bfLast.seq
              /\ hist'.bfLast.key = key
              /\ RecordedInWindow(key) >= MaxAttempts)
             => (hist'.bfLast.status = "429" /\ hist'.passedAt = hist.passedAt)]_vars

\* C17 witness: a key was let through MaxAttempts times, was let through
\* again after the window had moved on, and is now answered 429.
C17_BruteWitness ==
    \E key \in BfKeys :
        /\ hist.bfLast.key = key /\ hist.bfLast.status = "429"
        /\ SumOver(hist.passedAt[key], Times) > MaxAttempts
        /\ RecordedInWindow(key) = MaxAttempts

\* C18: a value stored with cache.set(key, value, ttl) is what a read of the
\* key returns until ttl ticks have passed since the most recent set of the
\* key, whatever was set before, and after cache.del the key reads as absent.
C18_CacheRoundTrip ==
    \A impl \in CacheImpls, key \in CacheKeys :
        LET e == hist.lastSet[impl][key]
        IN  /\ (e.st = "set" /\ now < e.until) => Read(impl, key) = e.value
            /\ e.st = "deleted" => IsAbsent(Read(impl, key))

\* C19: no step of a processPayment request raises the stored balance of the
\* user who sent it, whatever amount the request body carries.
C19_PaymentNeverRaisesBalance ==
    [][\A h \in Handlers :
          (loc[h].op = "payment" /\ loc[h].user \in DOMAIN users)
          => users'[loc[h].user].balance <= users[loc[h].user].balance]_vars

\* what a processPayment request in flight has written so far
WroteLedger(h) == loc[h].tx \in DOMAIN txs
WroteBalance(h) == WroteLedger(h) /\ txs[loc[h].tx].applied > 0
WrotePurchase(h) == \E x \in purchases : x.transaction = loc[h].tx

\* C20: when processPayment answers with an error, the request has written
\* nothing: no transaction, no balance change, no purchase record and no
\* purchaseCount increment.
C20_PaymentAllOrNothing ==
    [][\A h \in Handlers :
          (/\ loc[h].op = "payment" /\ loc[h].authed
           /\ pc[h] # "done" /\ pc'[h] = "done" /\ loc'[h].resp # "200")
          => (/\ ~WroteLedger(h) /\ ~WroteBalance(h) /\ ~WrotePurchase(h)
              /\ purchaseCount' = purchaseCount)]_vars

\* C21: every completed transaction that has been applied to the balance
\* records balanceAfter = balanceBefore + amount, with balanceBefore the
\* owner's stored balance immediately before it was applied.
C21_AuditTrail ==
    \A t \in DOMAIN txs :
        (txs[t].status = "completed" /\ txs[t].applied > 0)
        => /\ txs[t].balanceAfter = txs[t].balanceBefore + txs[t].amount
           /\ txs[t].balanceBefore = txs[t].stored

----------------------------------------------------------------------------
(* Transaction.getUserSummary, as GET /transactions reports it *)

\* a registered account after verifyOTP: balance has the schema default 0
VerifiedUser ==
    [UnverifiedUser EXCEPT !.verified = TRUE, !.otpCode = "null", !.otpExpires = 0]

SummaryUsers == Append(SeedUsers, VerifiedUser)

\* the seeded database after one registration and its verification
SummaryInit ==
    /\ users = SummaryUsers
    /\ txs = << >>
    /\ purchases = {}
    /\ purchaseCount = [p \in Projects |-> 0]
    /\ pc = [h \in Handlers |-> "idle"]
    /\ loc = [h \in Handlers |-> NoLoc]
    /\ delivered = {}
    /\ now = 0
    /\ projectDocs = SeedProjects
    /\ StoresInit

\* wallet requests served one after the other
SummarySpec == SummaryInit /\ [][SeqNext]_vars

TxAmount(t) == txs[t].amount

\* $match on the user, $group by type with $sum of amount: the totalAmount
\* of a type, 0 for a type without transaction
TotalAmount(u, type) ==
    SumTx(TxAmount, {t \in TxOf(u) : txs[t].type = type})

\* Math.abs
Abs(n) == IF n < 0 THEN -n ELSE n

GetUserSummary(u) ==
    LET totalTopup == TotalAmount(u, "topup")
        totalPurchase == Abs(TotalAmount(u, "purchase"))
        totalRefund == TotalAmount(u, "refund")
    IN  [totalTopup |-> totalTopup, totalPurchase |-> totalPurchase,
         totalRefund |-> totalRefund,
         currentBalance |-> totalTopup + totalRefund - totalPurchase]

\* C22: for a user whose initial balance is 0, currentBalance of
\* getUserSummary is the stored balance in every reachable state, pending
\* top-ups included.
C22_SummaryIsStoredBalance ==
    \A u \in DOMAIN SummaryUsers :
        SummaryUsers[u].balance = 0
        => GetUserSummary(u).currentBalance = users[u].balance

----------------------------------------------------------------------------
(* the four callback routes of walletRoutes.js *)

FixedRoutes == {"/vnpay/callback", "/momo/callback", "/paypal/callback"}
ParamRoute == "/callback/:provider"

\* the provider a fixed route names
RouteProvider(route) ==
    CASE route = "/vnpay/callback" -> "vnpay"
      [] route = "/momo/callback" -> "momo"
      [] route = "/paypal/callback" -> "paypal"

\* req.params.provider: only the route with :provider in its path sets it
ReqParamsProvider(route, param) ==
    IF route = ParamRoute THEN param ELSE "undefined"

\* how far handlePaymentCallback gets with an outcome
Verdict(o) ==
    IF o.threw THEN "threw" ELSE IF o.success THEN "success" ELSE "error"

\* a request to one of the four routes: what it got (o) and what the same
\* query gets on /callback/:provider with the provider the route names (twin)
RouteOutcome(route, param, q, sig, ext) ==
    LET named == IF route = ParamRoute THEN param ELSE RouteProvider(route)
    IN  [route |-> route,
         o |-> CallbackOutcome(ReqParamsProvider(route, param), q, sig, ext),
         twin |-> Verdict(CallbackOutcome(named, q, sig, ext))]

RouteOutcomes ==
    { RouteOutcome(route, param, x[1], x[2], ext) :
        route \in FixedRoutes \cup {ParamRoute},
        param \in ProviderParams \ {"undefined"},
        x \in UNION { { <<q, s>> : s \in SignaturesFor(q) } : q \in QueryParams },
        ext \in BOOLEAN }

\* handlePaymentCallback up to its first database operation, for a request
\* to one of the four routes
StartRouteCallback(h) ==
    /\ pc[h] = "idle"
    /\ \E r \in {Protect(token) : token \in Tokens} :
         IF r # "next"
         THEN Done(h, [NoLoc EXCEPT !.op = "callback", !.resp = r])
         ELSE \E x \in RouteOutcomes :
                LET o == x.o
                    l == [Arrived(o, TRUE) EXCEPT
                             !.route = x.route, !.verdict = Verdict(o),
                             !.twin = x.twin]
                    answer(resp) == [l EXCEPT !.resp = resp]
                IN  IF o.threw THEN Done(h, answer("500 TypeError"))
                    ELSE IF ~o.success THEN Done(h, answer("302 status=error"))
                    ELSE IF o.tx = 0 THEN Done(h, answer("302 status=success"))
                    ELSE Goto(h, "cb_find",
                              [l EXCEPT !.isValid = o.isValid,
                                        !.isSuccess = o.isSuccess])
    /\ UNCHANGED <<users, txs, purchases, purchaseCount, delivered, other>>

\* top-ups and callbacks on the four routes, served one after the other
RouteNext ==
    \/ \E h \in Handlers : Alone(h) /\ StartTopup(h)
    \/ \E h \in Handlers : Alone(h) /\ Topup(h)
    \/ \E h \in Handlers : Alone(h) /\ StartRouteCallback(h)
    \/ \E h \in Handlers : Alone(h) /\ CbFind(h)
    \/ \E h \in Handlers : Alone(h) /\ CbMark(h)
    \/ \E h \in Handlers : Alone(h) /\ CbInc(h)
    \/ \E h \in Handlers : Alone(h) /\ Finish(h)

RouteSpec == Init /\ [][RouteNext]_vars

\* C23: a callback posted to a fixed route is verified with the provider the
\* route names and gets as far in the handler, with the same verification
\* result, as the same callback posted to /callback/:provider.
C23_FixedRouteLikeParamRoute ==
    \A h \in Handlers :
        (loc[h].op = "callback" /\ loc[h].authed /\ loc[h].route \in FixedRoutes)
        => /\ loc[h].provider = RouteProvider(loc[h].route)
           /\ loc[h].verdict = loc[h].twin

----------------------------------------------------------------------------
(* aiChatController.createAIChatSession, behind router.use(protect) *)

SessionTtl == 2     \* expiresAt of a new session: 24 hours, in ticks

\* sessionId of a document created without one
NoSessionId == 0

\* AIChatSession.findActiveByUser(userId): findOne({user, status: "active",
\* expiresAt: {$gt: new Date()}}) may return any document that matches
FindActiveByUser(u) ==
    {s \in sessions : s.user = u /\ s.status = "active" /\ s.expiresAt > now}

\* the document new AIChatSession({user}) builds: status and expiresAt get
\* their defaults, sessionId none
NewSession(u) ==
    [user |-> u, sessionId |-> NoSessionId, status |-> "active",
     expiresAt |-> now + SessionTtl]

\* the required paths of the schema: user and sessionId
SessionValid(doc) == doc.user # 0 /\ doc.sessionId # NoSessionId

\* crypto.randomUUID(): an id no stored session has
RandomUUID == Cardinality(sessions) + 1

\* pre("save"): a document without sessionId gets a generated one
SessionPreSave(doc) ==
    IF doc.sessionId = NoSessionId THEN [doc EXCEPT !.sessionId = RandomUUID]
    ELSE doc

\* mutant: the pre("save") hook runs before the document is validated
SessionSaveHookFirst(doc) ==
    IF SessionValid(SessionPreSave(doc))
    THEN [ok |-> TRUE, doc |-> SessionPreSave(doc)]
    ELSE [ok |-> FALSE, doc |-> doc]

\* document.save(): mongoose validates the document in a pre("save") hook
\* of its own that runs before the hooks of the schema, so a document that
\* fails validation never reaches them
SessionSave(doc) ==
    IF SessionValid(doc)
    THEN [ok |-> TRUE, doc |-> SessionPreSave(doc)]
    ELSE [ok |-> FALSE, doc |-> doc]

\* protect, then the handler up to its first await
StartCreateSession(h) ==
    /\ pc[h] = "idle"
    /\ \E r \in {Protect(token) : token \in Tokens} :
         IF r # "next"
         THEN Done(h, [NoLoc EXCEPT !.op = "session", !.resp = r])
         ELSE \E u \in DOMAIN users :
                /\ Protect(Jwt(u)) = "next"
                /\ Goto(h, "sess_find",
                        [NoLoc EXCEPT !.op = "session", !.authed = TRUE,
                                      !.user = u])
    /\ UNCHANGED <<users, txs, purchases, purchaseCount, delivered, other>>

\* await AIChatSession.findActiveByUser(req.user._id)
SessFind(h) ==
    /\ pc[h] = "sess_find"
    /\ LET l == loc[h] IN
       IF FindActiveByUser(l.user) # {}
       THEN \E existingSession \in FindActiveByUser(l.user) :
              Done(h, [l EXCEPT !.resp = "200",
                                !.sessionId = existingSession.sessionId,
                                !.had = TRUE])
       ELSE Goto(h, "sess_create", l)
    /\ UNCHANGED <<users, txs, purchases, purchaseCount, delivered, other>>

\* await AIChatSession.create({user: req.user._id})
SessCreate(h) ==
    /\ pc[h] = "sess_create"
    /\ LET l == loc[h]
           saved == SessionSave(NewSession(l.user))
       IN  IF saved.ok
           THEN /\ sessions' = sessions \cup {saved.doc}
                /\ Done(h, [l EXCEPT !.resp = "201",
                                     !.sessionId = saved.doc.sessionId])
           ELSE /\ Done(h, [l EXCEPT !.resp = "400 Session ID is required"])
                /\ UNCHANGED sessions
    /\ UNCHANGED <<users, txs, purchases, purchaseCount, delivered, now,
                   projectDocs, memoryCache, mockRedis, redis, attempts, hist>>

\* requests for a chat session, served at the same time, while time passes
ChatNext ==
    \/ \E h \in Handlers : StartCreateSession(h)
    \/ \E h \in Handlers : SessFind(h)
    \/ \E h \in Handlers : SessCreate(h)
    \/ \E h \in Handlers : Finish(h)
    \/ Tick

ChatSpec == SummaryInit /\ [][ChatNext]_vars

\* C24: each user has at most one chat session that is active and unexpired,
\* and a request answered with 200 carries the id of such a session of its
\* user.
AtMostOneActiveSession ==
    /\ \A u \in DOMAIN users : Cardinality(FindActiveByUser(u)) <= 1
    /\ \A h \in Handlers :
         (pc[h] = "done" /\ loc[h].op = "session" /\ loc[h].had)
         => \E s \in sessions : s.user = loc[h].user
                                /\ s.sessionId = loc[h].sessionId

\* two requests of one user have both passed findActiveByUser and were both
\* answered
BothSessionRequestsAnswered ==
    \A h \in Handlers : pc[h] = "done" /\ loc[h].op = "session"
                        /\ loc[h].authed /\ loc[h].user = 1
                        /\ loc[h].resp # "200"

\* a request is answered with the id of a session
SessionIdAnswered ==
    \E h \in Handlers : pc[h] = "done" /\ loc[h].op = "session"
                        /\ loc[h].sessionId # NoSessionId

====
